---------------------------- MODULE Spec2Model ----------------------------
(***************************************************************************)
(* Model of the collection route loader's query-parameter translation      *)
(* (app/routes/($lang).collections.$collectionHandle.tsx, lines 33-91 and  *)
(* 286-319): the sort lookup, the per-key scan of the search parameters    *)
(* and the combined price filter.                                          *)
(*                                                                         *)
(* JavaScript strings are sequences of one-character strings, so that      *)
(* String.prototype.includes, String.prototype.split, Number() and the     *)
(* template literals are computed rather than assumed.  The value          *)
(* `undefined` and the value `null` are the one-element sequences          *)
(* <<"undefined">> and <<"null">>, which are no strings of the model.      *)
(* JavaScript numbers are exact decimals [m, k] standing for m / 10^k,     *)
(* and NaN is a decimal of its own.                                        *)
(***************************************************************************)
EXTENDS Integers, Sequences, FiniteSets, TLC

\* The largest number of parameters of a query string.
MaxParams == 3

-----------------------------------------------------------------------------
(* String literals of the source. *)

available == <<"a", "v", "a", "i", "l", "a", "b", "l", "e">>
variantOption == <<"v", "a", "r", "i", "a", "n", "t", "O", "p", "t", "i", "o", "n">>
productVendor == <<"p", "r", "o", "d", "u", "c", "t", "V", "e", "n", "d", "o", "r">>
productType == <<"p", "r", "o", "d", "u", "c", "t", "T", "y", "p", "e">>
knownFilters == <<productVendor, productType>>
minPrice == <<"m", "i", "n", "P", "r", "i", "c", "e">>
maxPrice == <<"m", "a", "x", "P", "r", "i", "c", "e">>
sort == <<"s", "o", "r", "t">>
cursor == <<"c", "u", "r", "s", "o", "r">>
priceHighLow == <<"p", "r", "i", "c", "e", "-", "h", "i", "g", "h", "-", "l", "o", "w">>
priceLowHigh == <<"p", "r", "i", "c", "e", "-", "l", "o", "w", "-", "h", "i", "g", "h">>
bestSelling == <<"b", "e", "s", "t", "-", "s", "e", "l", "l", "i", "n", "g">>
newest == <<"n", "e", "w", "e", "s", "t">>
featured == <<"f", "e", "a", "t", "u", "r", "e", "d">>
strTrue == <<"t", "r", "u", "e">>
strFalse == <<"f", "a", "l", "s", "e">>
InStock == <<"I", "n", " ", "s", "t", "o", "c", "k">>
OutOfStock == <<"O", "u", "t", " ", "o", "f", " ", "s", "t", "o", "c", "k">>
MinPrefix == <<"M", "i", "n", ":", " ", "$">>
MaxPrefix == <<"M", "a", "x", ":", " ", "$">>

\* The values that are no strings.
undefined == <<"undefined">>
null == <<"null">>

-----------------------------------------------------------------------------
(* Built-ins of the language and of URLSearchParams. *)

\* String.prototype.includes(sub)
Includes(s, sub) ==
  \E i \in 0..(Len(s) - Len(sub)) : SubSeq(s, i + 1, i + Len(sub)) = sub

\* Array.prototype.includes(x)
ArrayIncludes(arr, x) == \E i \in 1..Len(arr) : arr[i] = x

\* String.prototype.split(sep) for a one-character separator: every piece
\* between two occurrences of the separator, in order.
RECURSIVE SplitFrom(_, _, _)
SplitFrom(s, sep, cur) ==
  IF s = <<>> THEN <<cur>>
  ELSE IF Head(s) = sep THEN <<cur>> \o SplitFrom(Tail(s), sep, <<>>)
  ELSE SplitFrom(Tail(s), sep, Append(cur, Head(s)))

Split(s, sep) == SplitFrom(s, sep, <<>>)

\* arr[i] of an array destructuring: undefined past the end (1-based here).
ElementAt(arr, i) == IF i <= Len(arr) THEN arr[i] ELSE undefined

\* URLSearchParams.has(key)
Has(params, key) == \E i \in 1..Len(params) : params[i].key = key

\* URLSearchParams.get(key): the value of the first pair with that key,
\* null when there is none.
Get(params, key) ==
  IF Has(params, key)
  THEN params[CHOOSE i \in 1..Len(params) :
                /\ params[i].key = key
                /\ \A j \in 1..(i - 1) : params[j].key # key].value
  ELSE null

-----------------------------------------------------------------------------
(* Numbers. *)

Digits == <<"0", "1", "2", "3", "4", "5", "6", "7", "8", "9">>

IsDigit(c) == \E d \in 1..10 : Digits[d] = c

DigitValue(c) == (CHOOSE d \in 1..10 : Digits[d] = c) - 1

NaN == [m |-> 0, k |-> -1]
Zero == [m |-> 0, k |-> 0]

IsNaN(n) == n.k = -1

\* The value of a sequence of digits read as a decimal integer.
RECURSIVE DigitsValue(_)
DigitsValue(ds) ==
  IF ds = <<>> THEN 0
  ELSE 10 * DigitsValue(SubSeq(ds, 1, Len(ds) - 1)) + DigitValue(ds[Len(ds)])

\* m / 10^k with the trailing zeros of the fraction removed.
RECURSIVE Normalize(_, _)
Normalize(m, k) ==
  IF k > 0 /\ m % 10 = 0 THEN Normalize(m \div 10, k - 1) ELSE [m |-> m, k |-> k]

\* The unsigned decimal literals: digits, digits '.', digits '.' digits,
\* '.' digits.
ParseUnsigned(s) ==
  LET parts == Split(s, ".")
      int == parts[1]
      frac == IF Len(parts) = 2 THEN parts[2] ELSE <<>>
  IN  IF /\ Len(parts) <= 2
         /\ Len(int) + Len(frac) > 0
         /\ \A i \in 1..Len(int) : IsDigit(int[i])
         /\ \A i \in 1..Len(frac) : IsDigit(frac[i])
      THEN Normalize(DigitsValue(int \o frac), Len(frac))
      ELSE NaN

\* Number(s) of a string s: the empty string is 0, a decimal literal with
\* an optional sign is its value, everything else is NaN.  (White space,
\* exponents, 'Infinity' and the 0x/0o/0b literals are not modelled; no
\* value of the model uses them.)
Number(s) ==
  IF s = <<>> THEN Zero
  ELSE IF Head(s) = "-"
       THEN LET n == ParseUnsigned(Tail(s))
            IN  IF IsNaN(n) THEN NaN ELSE [m |-> 0 - n.m, k |-> n.k]
  ELSE IF Head(s) = "+" THEN ParseUnsigned(Tail(s))
  ELSE ParseUnsigned(s)

\* OrZero with the `|| 0` left out.
OrZero_Missing(n) == n

\* x || 0 of a number x: NaN and 0 are falsy.
OrZero(n) == IF IsNaN(n) \/ n.m = 0 THEN Zero ELSE n

\* The decimal digits of a natural number, at least `width` of them.
RECURSIVE NatDigits(_, _)
NatDigits(n, width) ==
  IF n < 10 /\ width <= 1 THEN <<Digits[n + 1]>>
  ELSE Append(NatDigits(n \div 10, width - 1), Digits[(n % 10) + 1])

\* `${n}` of a number n (Number::toString).
NumberToString(n) ==
  IF IsNaN(n) THEN <<"N", "a", "N">>
  ELSE LET abs == IF n.m < 0 THEN 0 - n.m ELSE n.m
           ds == NatDigits(abs, n.k + 1)
           int == SubSeq(ds, 1, Len(ds) - n.k)
           frac == SubSeq(ds, Len(ds) - n.k + 1, Len(ds))
       IN  (IF n.m < 0 THEN <<"-">> ELSE <<>>)
             \o int \o (IF n.k > 0 THEN <<".">> \o frac ELSE <<>>)

-----------------------------------------------------------------------------
(* The requests: query strings of at most MaxParams parameters. *)

acme == <<"a", "c", "m", "e">>
mats == <<"m", "a", "t", "s">>
yes == <<"y", "e", "s">>
bogus == <<"b", "o", "g", "u", "s">>
colorRed == <<"C", ":", "R">>
colorRedDark == <<"C", ":", "R", ":", "D">>
red == <<"R">>
sizeKey == <<"f", ".", "v", "a", "r", "i", "a", "n", "t", "O", "p", "t", "i", "o", "n", ".", "s">>
sizeM == <<"S", ":", "M">>
ten == <<"1", "0">>
twentyFive == <<"2", "5">>
abc == <<"a", "b", "c">>
minusFive == <<"-", "5">>
pointFifty == <<".", "5", "0">>
zeroTen == <<"0", "1", "0">>

Param(k, v) == [key |-> k, value |-> v]

ParamChoices ==
  { Param(available, strTrue), Param(available, strFalse), Param(available, yes),
    Param(productVendor, acme), Param(productType, mats),
    Param(variantOption, colorRed), Param(variantOption, colorRedDark),
    Param(variantOption, red), Param(sizeKey, sizeM),
    Param(minPrice, ten), Param(minPrice, abc), Param(minPrice, <<>>),
    Param(minPrice, minusFive), Param(minPrice, pointFifty),
    Param(maxPrice, twentyFive), Param(maxPrice, abc), Param(maxPrice, zeroTen),
    Param(sort, priceHighLow), Param(sort, priceLowHigh), Param(sort, bestSelling),
    Param(sort, newest), Param(sort, featured), Param(sort, bogus),
    Param(cursor, strTrue) }

QueryStrings == UNION { [1..n -> ParamChoices] : n \in 0..MaxParams }

-----------------------------------------------------------------------------
(* The loader. *)

VARIABLES
  searchParams,    \* new URL(request.url).searchParams, in query-string order
  pc,              \* the loader's position: "sort", "scan", "done"
  idx,             \* the entry of searchParams.entries() the scan is at
  sortSpec,        \* {sortKey, reverse}
  filters,         \* the filter clauses
  appliedFilters   \* the applied-filter descriptors

\* The product route (app/routes/($lang).products.$productHandle.tsx).
VARIABLES
  source,          \* the review source: the pages it has, page 1 first
  tail,            \* what the source answers past its last page
  externalID,      \* getReviewsWithID: the externalID of each invocation
  rpc,             \* getReviewsWithID: the position of each invocation
  page,            \* getReviewsWithID: the page argument of each invocation
  products,        \* getReviewsWithID: the accumulator arrays
  inflight,        \* the page requests of each invocation not yet answered
  fetched,         \* the page requests each invocation has issued, in order
  result,          \* what each invocation's promise resolved to
  failedPage,      \* the page whose fetch or parse rejected (0: none)
  reviewJson,      \* loader: product.reviewJson (the metafield), or absent
  lpc,             \* loader: its position
  ourReviews,      \* loader: let ourReviews
  productReviews,  \* loader: const productReviews
  productId,       \* getRecommendedProducts: productId
  additional,      \* getRecommendedProducts: products.additional.nodes
  gpc,             \* getRecommendedProducts: its position
  mergedProducts   \* getRecommendedProducts: const mergedProducts

collectionVars == <<searchParams, pc, idx, sortSpec, filters, appliedFilters>>

reviewVars ==
  <<source, tail, externalID, rpc, page, products, inflight, fetched, result,
    failedPage>>

loaderVars == <<reviewJson, lpc, ourReviews, productReviews>>

recommendVars == <<productId, additional, gpc, mergedProducts>>

productVars == <<reviewVars, loaderVars, recommendVars>>

vars == <<collectionVars, productVars>>

\* getSortValuesFromParam with 'newest' not reversed.
getSortValuesFromParam_NewestForward(sortParam) ==
  CASE sortParam = priceHighLow -> [sortKey |-> "PRICE", reverse |-> TRUE]
    [] sortParam = priceLowHigh -> [sortKey |-> "PRICE", reverse |-> FALSE]
    [] sortParam = bestSelling -> [sortKey |-> "BEST_SELLING", reverse |-> FALSE]
    [] sortParam = newest -> [sortKey |-> "CREATED", reverse |-> FALSE]
    [] sortParam = featured -> [sortKey |-> "MANUAL", reverse |-> FALSE]
    [] OTHER -> [sortKey |-> "RELEVANCE", reverse |-> FALSE]

getSortValuesFromParam(sortParam) ==
  CASE sortParam = priceHighLow -> [sortKey |-> "PRICE", reverse |-> TRUE]
    [] sortParam = priceLowHigh -> [sortKey |-> "PRICE", reverse |-> FALSE]
    [] sortParam = bestSelling -> [sortKey |-> "BEST_SELLING", reverse |-> FALSE]
    [] sortParam = newest -> [sortKey |-> "CREATED", reverse |-> TRUE]
    [] sortParam = featured -> [sortKey |-> "MANUAL", reverse |-> FALSE]
    [] OTHER -> [sortKey |-> "RELEVANCE", reverse |-> FALSE]

\* AvailableFilter testing the value for truthiness: {available: !!value}.
AvailableFilter_Truthy(value) == [available |-> value # <<>>]

\* {available: value === 'true'}
AvailableFilter(value) == [available |-> value = strTrue]

AvailableApplied(value) ==
  [label |-> IF value = strTrue THEN InStock ELSE OutOfStock,
   urlParam |-> [key |-> available, value |-> value]]

\* {[key]: value}
KnownFilter(key, value) == [key |-> key, value |-> value]

\* KnownApplied labelled with the key.
KnownApplied_KeyLabel(key, value) ==
  [label |-> key, urlParam |-> [key |-> key, value |-> value]]

KnownApplied(key, value) ==
  [label |-> value, urlParam |-> [key |-> key, value |-> value]]

\* const [name, val] = value.split(':')
VariantOptionName(value) == ElementAt(Split(value, ":"), 1)

VariantOptionVal(value) == ElementAt(Split(value, ":"), 2)

VariantOptionFilter(value) ==
  [variantOption |->
     [name |-> VariantOptionName(value), value |-> VariantOptionVal(value)]]

\* VariantOptionApplied with the option's value as the urlParam's value.
VariantOptionApplied_ValOnly(key, value) ==
  [label |-> VariantOptionVal(value),
   urlParam |-> [key |-> key, value |-> VariantOptionVal(value)]]

VariantOptionApplied(key, value) ==
  [label |-> VariantOptionVal(value), urlParam |-> [key |-> key, value |-> value]]

\* Number(searchParams.get(key)) || 0
PriceBound(params, key) == OrZero(Number(Get(params, key)))

\* Price with both bounds set whatever is present.
Price_BothBounds(params) ==
  [b \in {"min", "max"} |->
     PriceBound(params, IF b = "min" THEN minPrice ELSE maxPrice)]

\* The price object: min and max are set when their parameter is present.
Price(params) ==
  [b \in {x \in {"min", "max"} :
            Has(params, IF x = "min" THEN minPrice ELSE maxPrice)} |->
     PriceBound(params, IF b = "min" THEN minPrice ELSE maxPrice)]

PriceFilter(params) == [price |-> Price(params)]

MinApplied(params) ==
  [label |-> MinPrefix \o NumberToString(PriceBound(params, minPrice)),
   urlParam |-> [key |-> minPrice, value |-> Get(params, minPrice)]]

MaxApplied(params) ==
  [label |-> MaxPrefix \o NumberToString(PriceBound(params, maxPrice)),
   urlParam |-> [key |-> maxPrice, value |-> Get(params, maxPrice)]]

\* The descriptors the price block pushes: min before max.
PriceApplied(params) ==
  (IF Has(params, minPrice) THEN <<MinApplied(params)>> ELSE <<>>)
    \o (IF Has(params, maxPrice) THEN <<MaxApplied(params)>> ELSE <<>>)

\* The invocations of getReviewsWithID that run at the same time.
Invocations == {1, 2}

\* A promise: pending, fulfilled with a value, or rejected.
Pending == [state |-> "pending"]

Fulfilled(v) == [state |-> "fulfilled", value |-> v]

Rejected == [state |-> "rejected"]

\* No call of getReviewsWithID.
NoInvocation ==
  /\ externalID = [i \in Invocations |-> "A"]
  /\ rpc = [i \in Invocations |-> "off"]
  /\ page = [i \in Invocations |-> 1]
  /\ products = [i \in Invocations |-> <<>>]
  /\ inflight = [i \in Invocations |-> {}]
  /\ fetched = [i \in Invocations |-> <<>>]
  /\ result = [i \in Invocations |-> Pending]
  /\ failedPage = [i \in Invocations |-> 0]

\* The review source with no pages, and no call of getReviewsWithID.
ReviewsAtRest ==
  /\ source = <<>>
  /\ tail = "empty"
  /\ NoInvocation

\* No request for a product page.
LoaderAtRest ==
  /\ reviewJson = [present |-> FALSE]
  /\ lpc = "off"
  /\ ourReviews = <<>>
  /\ productReviews = Pending

\* No call of getRecommendedProducts.
RecommendAtRest ==
  /\ productId = "p1"
  /\ additional = <<>>
  /\ gpc = "off"
  /\ mergedProducts = <<>>

\* No request for a collection page.
CollectionAtRest ==
  /\ searchParams = <<>>
  /\ pc = "off"
  /\ idx = 1
  /\ sortSpec = [sortKey |-> "unset", reverse |-> FALSE]
  /\ filters = <<>>
  /\ appliedFilters = <<>>

Init ==
  /\ searchParams \in QueryStrings
  /\ pc = "sort"
  /\ idx = 1
  /\ sortSpec = [sortKey |-> "unset", reverse |-> FALSE]
  /\ filters = <<>>
  /\ appliedFilters = <<>>
  /\ ReviewsAtRest
  /\ LoaderAtRest
  /\ RecommendAtRest

\* Lines 42-47: the sort lookup, then the empty output lists.
ReadSort ==
  /\ pc = "sort"
  /\ sortSpec' = getSortValuesFromParam(Get(searchParams, sort))
  /\ pc' = "scan"
  /\ UNCHANGED <<searchParams, idx, filters, appliedFilters>>
  /\ UNCHANGED productVars

Scanning == pc = "scan" /\ idx <= Len(searchParams)

\* Lines 50-58.
ScanAvailable ==
  /\ Scanning
  /\ searchParams[idx].key = available
  /\ filters' = Append(filters, AvailableFilter(searchParams[idx].value))
  /\ appliedFilters' =
       Append(appliedFilters, AvailableApplied(searchParams[idx].value))
  /\ idx' = idx + 1
  /\ UNCHANGED <<searchParams, pc, sortSpec>>
  /\ UNCHANGED productVars

\* Lines 59-61.
ScanKnown ==
  /\ Scanning
  /\ searchParams[idx].key # available
  /\ ArrayIncludes(knownFilters, searchParams[idx].key)
  /\ filters' =
       Append(filters, KnownFilter(searchParams[idx].key, searchParams[idx].value))
  /\ appliedFilters' =
       Append(appliedFilters,
              KnownApplied(searchParams[idx].key, searchParams[idx].value))
  /\ idx' = idx + 1
  /\ UNCHANGED <<searchParams, pc, sortSpec>>
  /\ UNCHANGED productVars

\* Lines 62-66.
ScanVariantOption ==
  /\ Scanning
  /\ searchParams[idx].key # available
  /\ ~ArrayIncludes(knownFilters, searchParams[idx].key)
  /\ Includes(searchParams[idx].key, variantOption)
  /\ filters' = Append(filters, VariantOptionFilter(searchParams[idx].value))
  /\ appliedFilters' =
       Append(appliedFilters,
              VariantOptionApplied(searchParams[idx].key, searchParams[idx].value))
  /\ idx' = idx + 1
  /\ UNCHANGED <<searchParams, pc, sortSpec>>
  /\ UNCHANGED productVars

\* ScanOther with the allow-list test lost: any other key is a filter.
ScanOther_Pushes ==
  /\ Scanning
  /\ searchParams[idx].key # available
  /\ ~ArrayIncludes(knownFilters, searchParams[idx].key)
  /\ ~Includes(searchParams[idx].key, variantOption)
  /\ filters' =
       Append(filters, KnownFilter(searchParams[idx].key, searchParams[idx].value))
  /\ appliedFilters' =
       Append(appliedFilters,
              KnownApplied(searchParams[idx].key, searchParams[idx].value))
  /\ idx' = idx + 1
  /\ UNCHANGED <<searchParams, pc, sortSpec>>
  /\ UNCHANGED productVars

\* Lines 49-67, no branch taken.
ScanOther ==
  /\ Scanning
  /\ searchParams[idx].key # available
  /\ ~ArrayIncludes(knownFilters, searchParams[idx].key)
  /\ ~Includes(searchParams[idx].key, variantOption)
  /\ idx' = idx + 1
  /\ UNCHANGED <<searchParams, pc, sortSpec, filters, appliedFilters>>
  /\ UNCHANGED productVars

ScanDone == pc = "scan" /\ idx > Len(searchParams)

\* BuildPrice putting the price clause and descriptors in front.
BuildPrice_First ==
  /\ ScanDone
  /\ Has(searchParams, minPrice) \/ Has(searchParams, maxPrice)
  /\ appliedFilters' = PriceApplied(searchParams) \o appliedFilters
  /\ filters' = <<PriceFilter(searchParams)>> \o filters
  /\ pc' = "done"
  /\ UNCHANGED <<searchParams, idx, sortSpec>>
  /\ UNCHANGED productVars

\* Lines 72-91, the condition of line 72 true.
BuildPrice ==
  /\ ScanDone
  /\ Has(searchParams, minPrice) \/ Has(searchParams, maxPrice)
  /\ appliedFilters' = appliedFilters \o PriceApplied(searchParams)
  /\ filters' = Append(filters, PriceFilter(searchParams))
  /\ pc' = "done"
  /\ UNCHANGED <<searchParams, idx, sortSpec>>
  /\ UNCHANGED productVars

\* Line 72, the condition false.
NoPrice ==
  /\ ScanDone
  /\ ~(Has(searchParams, minPrice) \/ Has(searchParams, maxPrice))
  /\ pc' = "done"
  /\ UNCHANGED <<searchParams, idx, sortSpec, filters, appliedFilters>>
  /\ UNCHANGED productVars

Next ==
  \/ ReadSort
  \/ ScanAvailable
  \/ ScanKnown
  \/ ScanVariantOption
  \/ ScanOther
  \/ BuildPrice
  \/ NoPrice

Spec == Init /\ [][Next]_vars

-----------------------------------------------------------------------------
(* The translation as a function of the query string (lines 49-91). *)

\* One iteration of the loop of lines 49-67: the clauses it pushes.
ScanFilter(p) ==
  IF p.key = available THEN <<AvailableFilter(p.value)>>
  ELSE IF ArrayIncludes(knownFilters, p.key) THEN <<KnownFilter(p.key, p.value)>>
  ELSE IF Includes(p.key, variantOption) THEN <<VariantOptionFilter(p.value)>>
  ELSE <<>>

\* One iteration of the loop of lines 49-67: the descriptors it pushes.
ScanApplied(p) ==
  IF p.key = available THEN <<AvailableApplied(p.value)>>
  ELSE IF ArrayIncludes(knownFilters, p.key) THEN <<KnownApplied(p.key, p.value)>>
  ELSE IF Includes(p.key, variantOption)
       THEN <<VariantOptionApplied(p.key, p.value)>>
  ELSE <<>>

RECURSIVE ScanFilters(_)
ScanFilters(q) ==
  IF q = <<>> THEN <<>> ELSE ScanFilter(Head(q)) \o ScanFilters(Tail(q))

RECURSIVE ScanAppliedAll(_)
ScanAppliedAll(q) ==
  IF q = <<>> THEN <<>> ELSE ScanApplied(Head(q)) \o ScanAppliedAll(Tail(q))

HasPrice(q) == Has(q, minPrice) \/ Has(q, maxPrice)

TranslateFilters(q) ==
  ScanFilters(q) \o (IF HasPrice(q) THEN <<PriceFilter(q)>> ELSE <<>>)

TranslateApplied(q) ==
  ScanAppliedAll(q) \o (IF HasPrice(q) THEN PriceApplied(q) ELSE <<>>)

-----------------------------------------------------------------------------
(* Vocabulary of the properties. *)

\* The entries of the query string the scan has been through.
Scanned == IF pc = "sort" THEN <<>> ELSE SubSeq(searchParams, 1, idx - 1)

IsKnownKey(k) == k \in {productVendor, productType}

IsVariantKey(k) == Includes(k, variantOption)

\* The parameters the scan answers with a clause and a descriptor.
Emits(p) == p.key = available \/ IsKnownKey(p.key) \/ IsVariantKey(p.key)

Emitting == SelectSeq(Scanned, Emits)

Finished == pc = "done"

IsPriceClause(c) == DOMAIN c = {"price"}

IsAvailableClause(c) == DOMAIN c = {"available"}

IsVariantClause(c) == DOMAIN c = {"variantOption"}

IsKnownClause(c) == DOMAIN c = {"key", "value"}

-----------------------------------------------------------------------------
(* Properties of the sort lookup and of the scan. *)

SortTokens == {priceHighLow, priceLowHigh, bestSelling, newest, featured}

\* C1: once the loader has read the 'sort' parameter, the sort spec is the
\* one the table gives for it: PRICE reversed for 'price-high-low', PRICE
\* for 'price-low-high', BEST_SELLING for 'best-selling', CREATED reversed
\* for 'newest', MANUAL for 'featured', and RELEVANCE, not reversed, for
\* every other token and for an absent parameter.
C1_SortLookupTotal ==
  pc # "sort" =>
    LET token == Get(searchParams, sort)
    IN  /\ token = priceHighLow => sortSpec = [sortKey |-> "PRICE", reverse |-> TRUE]
        /\ token = priceLowHigh => sortSpec = [sortKey |-> "PRICE", reverse |-> FALSE]
        /\ token = bestSelling =>
             sortSpec = [sortKey |-> "BEST_SELLING", reverse |-> FALSE]
        /\ token = newest => sortSpec = [sortKey |-> "CREATED", reverse |-> TRUE]
        /\ token = featured => sortSpec = [sortKey |-> "MANUAL", reverse |-> FALSE]
        /\ token \notin SortTokens =>
             sortSpec = [sortKey |-> "RELEVANCE", reverse |-> FALSE]

\* C1 witness: a query with two 'sort' parameters, an unknown token after
\* 'newest', has been given CREATED reversed.
C1_Witness ==
  /\ pc = "done"
  /\ Len(searchParams) = 3
  /\ searchParams[2] = Param(sort, newest)
  /\ searchParams[3] = Param(sort, bogus)
  /\ searchParams[1].key # sort
  /\ sortSpec = [sortKey |-> "CREATED", reverse |-> TRUE]

\* The number of entries of a sequence equal to x.
Occurrences(s, x) == Cardinality({i \in 1..Len(s) : s[i] = x})

\* C2: for every parameter with a key of the allow-list, the scan has pushed
\* as many clauses {key: value} as the parameter occurs among the scanned
\* entries, and as many descriptors with that (key, value) as urlParam, each
\* labelled with the raw value.
C2_KnownFilterEmitted ==
  \A i \in 1..Len(searchParams) :
    LET p == searchParams[i]
    IN  IsKnownKey(p.key) =>
          /\ Occurrences(filters, [key |-> p.key, value |-> p.value])
               = Occurrences(Scanned, p)
          /\ Cardinality({j \in 1..Len(appliedFilters) :
                            appliedFilters[j].urlParam = p})
               = Occurrences(Scanned, p)
          /\ \A j \in 1..Len(appliedFilters) :
               appliedFilters[j].urlParam = p => appliedFilters[j].label = p.value

\* C2 witness: the same vendor parameter twice, both scanned.
C2_Witness ==
  /\ pc = "done"
  /\ Occurrences(searchParams, Param(productVendor, acme)) = 2
  /\ Occurrences(filters, [key |-> productVendor, value |-> acme]) = 2

\* C3: the j-th emitting parameter, when its key is 'available', has the
\* j-th clause {available: b} with b true exactly for the value "true", and
\* the j-th descriptor, with that parameter as urlParam, labelled
\* "In stock" for "true" and "Out of stock" for "false"; the label is
\* "In stock" exactly when b is true; and there are as many 'available'
\* clauses as 'available' parameters scanned.
C3_AvailableLabelAgrees ==
  /\ Len(filters) >= Len(Emitting)
  /\ Len(appliedFilters) >= Len(Emitting)
  /\ \A j \in 1..Len(Emitting) :
       LET p == Emitting[j]
       IN  p.key = available =>
             /\ filters[j] = [available |-> (p.value = strTrue)]
             /\ appliedFilters[j].urlParam = p
             /\ p.value = strTrue => appliedFilters[j].label = InStock
             /\ p.value = strFalse => appliedFilters[j].label = OutOfStock
             /\ appliedFilters[j].label \in {InStock, OutOfStock}
             /\ (appliedFilters[j].label = InStock) <=> filters[j].available
  /\ Cardinality({j \in 1..Len(filters) : IsAvailableClause(filters[j])})
       = Cardinality({i \in 1..Len(Scanned) : Scanned[i].key = available})

\* C3 witness: available=false, available=true and available=yes, scanned.
C3_Witness ==
  /\ pc = "done"
  /\ searchParams = <<Param(available, strFalse), Param(available, strTrue),
                      Param(available, yes)>>
  /\ Len(filters) = 3

-----------------------------------------------------------------------------
(* Properties of the price block. *)

PriceClausesAt == {j \in 1..Len(filters) : IsPriceClause(filters[j])}

DescriptorsAt(key) ==
  {j \in 1..Len(appliedFilters) : appliedFilters[j].urlParam.key = key}

\* C4: when the loader has finished there is one price clause if minPrice
\* or maxPrice is present and none otherwise; the clause has a min exactly
\* when minPrice is present and a max exactly when maxPrice is present;
\* there is one descriptor per bound present, labelled "Min: $" / "Max: $"
\* followed by the number the clause carries; minPrice=10&maxPrice=25 gives
\* {price: {min: 10, max: 25}} and the labels "Min: $10" and "Max: $25".
C4_PriceClauseAndDescriptors ==
  Finished =>
    LET hasMin == Has(searchParams, minPrice)
        hasMax == Has(searchParams, maxPrice)
    IN  /\ Cardinality(PriceClausesAt) = IF hasMin \/ hasMax THEN 1 ELSE 0
        /\ \A j \in PriceClausesAt :
             /\ ("min" \in DOMAIN filters[j].price) <=> hasMin
             /\ ("max" \in DOMAIN filters[j].price) <=> hasMax
             /\ \A d \in DescriptorsAt(minPrice) :
                  appliedFilters[d].label
                    = MinPrefix \o NumberToString(filters[j].price.min)
             /\ \A d \in DescriptorsAt(maxPrice) :
                  appliedFilters[d].label
                    = MaxPrefix \o NumberToString(filters[j].price.max)
        /\ Cardinality(DescriptorsAt(minPrice)) = IF hasMin THEN 1 ELSE 0
        /\ Cardinality(DescriptorsAt(maxPrice)) = IF hasMax THEN 1 ELSE 0
        /\ searchParams = <<Param(minPrice, ten), Param(maxPrice, twentyFive)>> =>
             /\ filters = <<[price |-> [min |-> [m |-> 10, k |-> 0],
                                        max |-> [m |-> 25, k |-> 0]]]>>
             /\ Len(appliedFilters) = 2
             /\ appliedFilters[1].label = <<"M", "i", "n", ":", " ", "$", "1", "0">>
             /\ appliedFilters[2].label = <<"M", "a", "x", ":", " ", "$", "2", "5">>

\* C4 witness: maxPrice=25 before minPrice=10, a second minPrice after them.
C4_Witness ==
  /\ Finished
  /\ searchParams = <<Param(maxPrice, twentyFive), Param(minPrice, ten),
                      Param(minPrice, abc)>>
  /\ Cardinality(PriceClausesAt) = 1
  /\ Len(appliedFilters) = 2

Unparsable(v) == v = <<>> \/ IsNaN(Number(v))

\* C5: when the loader has finished, a present minPrice (maxPrice) whose
\* value is empty or no number has given the price clause the min (max) 0
\* and the descriptor "Min: $0" ("Max: $0").
C5_MalformedPriceIsZero ==
  Finished =>
    /\ (Has(searchParams, minPrice) /\ Unparsable(Get(searchParams, minPrice))) =>
         /\ PriceClausesAt # {}
         /\ \A j \in PriceClausesAt : filters[j].price.min = Zero
         /\ DescriptorsAt(minPrice) # {}
         /\ \A d \in DescriptorsAt(minPrice) :
              appliedFilters[d].label = <<"M", "i", "n", ":", " ", "$", "0">>
    /\ (Has(searchParams, maxPrice) /\ Unparsable(Get(searchParams, maxPrice))) =>
         /\ PriceClausesAt # {}
         /\ \A j \in PriceClausesAt : filters[j].price.max = Zero
         /\ DescriptorsAt(maxPrice) # {}
         /\ \A d \in DescriptorsAt(maxPrice) :
              appliedFilters[d].label = <<"M", "a", "x", ":", " ", "$", "0">>

\* C5 witness: minPrice=abc and maxPrice=abc, translated.
C5_Witness ==
  /\ Finished
  /\ Get(searchParams, minPrice) = abc
  /\ Get(searchParams, maxPrice) = abc
  /\ PriceClausesAt # {}

\* C6 as stated: every bound of an emitted price clause is at least 0.
C6_BoundsNonNegative ==
  \A j \in PriceClausesAt :
    \A b \in DOMAIN filters[j].price :
      ~IsNaN(filters[j].price[b]) /\ filters[j].price[b].m >= 0

-----------------------------------------------------------------------------
(* Properties of the variantOption branch. *)

HasColon(v) == \E i \in 1..Len(v) : v[i] = ":"

FirstColon(v) ==
  CHOOSE i \in 1..Len(v) : v[i] = ":" /\ \A j \in 1..(i - 1) : v[j] # ":"

BeforeFirstColon(v) == SubSeq(v, 1, FirstColon(v) - 1)

AfterFirstColon(v) == SubSeq(v, FirstColon(v) + 1, Len(v))

\* C7 as stated: the j-th emitting parameter, when its key contains
\* 'variantOption' and its value a colon, has the j-th clause
\* {variantOption: {name, value}} with name the text before the first colon
\* and value all of the text after it, and the j-th descriptor labelled
\* with that value.
C7_SplitOnFirstColon ==
  \A j \in 1..Len(Emitting) :
    LET p == Emitting[j]
    IN  (IsVariantKey(p.key) /\ HasColon(p.value)) =>
          /\ j <= Len(filters)
          /\ filters[j] = [variantOption |->
                             [name |-> BeforeFirstColon(p.value),
                              value |-> AfterFirstColon(p.value)]]
          /\ appliedFilters[j].label = AfterFirstColon(p.value)

-----------------------------------------------------------------------------
(* Properties of the two output lists as a whole. *)

\* The clause c is one the scan pushes for the parameter p.
ClauseOf(c, p) ==
  /\ p.key = available => c = [available |-> (p.value = strTrue)]
  /\ IsKnownKey(p.key) => c = [key |-> p.key, value |-> p.value]
  /\ (p.key # available /\ ~IsKnownKey(p.key)) =>
       /\ IsVariantClause(c)
       /\ c.variantOption.name = Split(p.value, ":")[1]

PriceKeys == {minPrice, maxPrice}

\* C8: at every point of the loader the j-th clause and the j-th descriptor
\* are those of the j-th emitting parameter scanned so far, in query-string
\* order; the price clause and the price descriptors are pushed after the
\* scan only, behind all of them, min before max.
C8_EncounterOrder ==
  LET n == Len(Emitting)
      nClause == IF Finished /\ HasPrice(searchParams) THEN 1 ELSE 0
      nMin == IF Finished /\ Has(searchParams, minPrice) THEN 1 ELSE 0
      nMax == IF Finished /\ Has(searchParams, maxPrice) THEN 1 ELSE 0
  IN  /\ Len(filters) = n + nClause
      /\ Len(appliedFilters) = n + nMin + nMax
      /\ \A j \in 1..n :
           /\ ClauseOf(filters[j], Emitting[j])
           /\ appliedFilters[j].urlParam = Emitting[j]
      /\ \A j \in (n + 1)..Len(filters) : IsPriceClause(filters[j])
      /\ \A j \in (n + 1)..Len(appliedFilters) :
           appliedFilters[j].urlParam.key \in PriceKeys
      /\ (nMin = 1 /\ nMax = 1) =>
           /\ appliedFilters[n + 1].urlParam.key = minPrice
           /\ appliedFilters[n + 2].urlParam.key = maxPrice

\* C8 witness: maxPrice, then a vendor, then minPrice; the vendor's entries
\* are first in both lists.
C8_Witness ==
  /\ Finished
  /\ Len(searchParams) = 3
  /\ searchParams[1].key = maxPrice
  /\ searchParams[2] = Param(productVendor, acme)
  /\ searchParams[3].key = minPrice
  /\ Len(filters) = 2
  /\ IsKnownClause(filters[1])
  /\ Len(appliedFilters) = 3

\* The parameters the translation does not look at.
Ignored(p) == ~Emits(p) /\ p.key \notin PriceKeys

NotIgnored(p) == ~Ignored(p)

\* C9: the two lists of a finished translation are those of the query
\* string with its ignored parameters taken out.
C9_IgnoredKeysNoEffect ==
  Finished =>
    /\ filters = TranslateFilters(SelectSeq(searchParams, NotIgnored))
    /\ appliedFilters = TranslateApplied(SelectSeq(searchParams, NotIgnored))

\* C9 witness: sort and cursor around an 'available' parameter.
C9_Witness ==
  /\ Finished
  /\ Len(searchParams) = 3
  /\ searchParams[1].key = sort
  /\ searchParams[2].key = available
  /\ searchParams[3].key = cursor
  /\ Len(filters) = 1
  /\ Len(appliedFilters) = 1

\* The descriptor d allows rebuilding the clause c: its urlParam is a pair
\* of the query string and, translated alone, gives c (for the price
\* clause, one of its bounds).
Rebuilds(d, c) ==
  /\ Occurrences(searchParams, d.urlParam) >= 1
  /\ LET alone == TranslateFilters(<<d.urlParam>>)
     IN  /\ Len(alone) = 1
         /\ IF IsPriceClause(c)
            THEN /\ IsPriceClause(alone[1])
                 /\ \E b \in DOMAIN alone[1].price :
                      b \in DOMAIN c.price /\ alone[1].price[b] = c.price[b]
            ELSE alone[1] = c

\* C10: every clause of a finished translation has a descriptor that
\* allows rebuilding it.
C10_EveryClauseRemovable ==
  Finished =>
    \A j \in 1..Len(filters) :
      \E d \in 1..Len(appliedFilters) : Rebuilds(appliedFilters[d], filters[j])

\* C10 witness: a variantOption value with two colons, a malformed minPrice
\* and a second minPrice.
C10_Witness ==
  /\ Finished
  /\ searchParams = <<Param(variantOption, colorRedDark), Param(minPrice, abc),
                      Param(minPrice, ten)>>
  /\ Len(filters) = 2

\* A value that is a string: neither undefined nor null.
IsString(v) == v # undefined /\ v # null

\* C19: every descriptor emitted has a string as its label and strings as
\* its urlParam's key and value, and every variantOption clause has a
\* defined name and a defined value, a variantOption parameter whose value
\* has no colon included.
C19_DescriptorsAreStrings ==
  /\ \A n \in 1..Len(appliedFilters) :
        /\ IsString(appliedFilters[n].label)
        /\ IsString(appliedFilters[n].urlParam.key)
        /\ IsString(appliedFilters[n].urlParam.value)
  /\ \A n \in 1..Len(filters) :
        IsVariantClause(filters[n]) =>
          /\ IsString(filters[n].variantOption.name)
          /\ IsString(filters[n].variantOption.value)

-----------------------------------------------------------------------------
(* getReviewsWithID (app/routes/($lang).products.$productHandle.tsx, lines *)
(* 693-713): the paginated scan of the review source.  An invocation is    *)
(* the whole chain of recursive calls; every await is a step of its own.   *)

\* The largest number of pages the review source has.
MaxPages == 2

\* The page number past which the model follows an endless source no more.
PageCap == MaxPages + 2

Review(id, rating) == [product_external_id |-> id, rating |-> rating]

\* The pages a source is made of: an empty page, a page of the product A, a
\* page without a record of A, and a page of both products.
PageChoices ==
  { <<>>,
    <<Review("A", 5)>>,
    <<Review("B", 4)>>,
    <<Review("A", 3), Review("B", 2), Review("A", 4)>> }

Sources == UNION { [1..n -> PageChoices] : n \in 0..MaxPages }

\* data.reviews of the response for page n: a page of the source, and past
\* the last one an empty list or, for an endless source, one more page.
FetchPage(n) ==
  IF n <= Len(source) THEN source[n]
  ELSE IF tail = "empty" THEN <<>>
  ELSE <<Review("B", 1)>>

\* getReviewsWithID stopping at a page without a record of the product.
IsLastPage_NoMatch(reviews, id) ==
  \A i \in 1..Len(reviews) : reviews[i].product_external_id # id

\* Line 703: data.reviews.length === 0
IsLastPage(reviews, id) == Len(reviews) = 0

\* Line 708 with the records of the other products kept.
ProductsWithID_All(reviews, id) == reviews

\* Line 708: data.reviews.filter(product => product.product_external_id === externalID)
ProductsWithID(reviews, id) ==
  LET Matches(r) == r.product_external_id = id
  IN  SelectSeq(reviews, Matches)

\* Line 712 asking for the same page again.
NextPage_Same(n) == n

\* Line 712: page + 1
NextPage(n) == n + 1

\* Line 693 with one array for all invocations.
Accumulator_Shared(i) == 1

\* Line 693: products = [], a new array for each invocation.
Accumulator(i) == i

ReviewInit ==
  /\ source \in Sources
  /\ tail \in {"empty", "endless"}
  /\ externalID \in {[i \in Invocations |-> IF i = 1 THEN "A" ELSE id] :
                       id \in {"A", "B"}}
  /\ rpc = [i \in Invocations |-> "idle"]
  /\ page = [i \in Invocations |-> 1]
  /\ products = [i \in Invocations |-> <<>>]
  /\ inflight = [i \in Invocations |-> {}]
  /\ fetched = [i \in Invocations |-> <<>>]
  /\ result = [i \in Invocations |-> Pending]
  /\ failedPage = [i \in Invocations |-> 0]
  /\ CollectionAtRest
  /\ LoaderAtRest
  /\ RecommendAtRest

reviewFrame ==
  UNCHANGED <<source, tail, externalID, collectionVars, loaderVars, recommendVars>>

\* Lines 693-700 of the first call: page = 1, and the fetch of page 1.
CallGetReviews(i) ==
  /\ rpc[i] = "idle"
  /\ page' = [page EXCEPT ![i] = 1]
  /\ fetched' = [fetched EXCEPT ![i] = Append(@, 1)]
  /\ inflight' = [inflight EXCEPT ![i] = @ \cup {1}]
  /\ rpc' = [rpc EXCEPT ![i] = "fetch"]
  /\ UNCHANGED <<products, result, failedPage>>
  /\ reviewFrame

\* Line 696: the fetch resolves; line 701: response.json() is begun.
FetchResolves(i) ==
  /\ rpc[i] = "fetch"
  /\ rpc' = [rpc EXCEPT ![i] = "json"]
  /\ UNCHANGED <<page, products, inflight, fetched, result, failedPage>>
  /\ reviewFrame

\* Rejects with the rejection caught and the accumulator returned.
Rejects_ReturnsPartial(i) ==
  /\ rpc' = [rpc EXCEPT ![i] = "settled"]
  /\ result' = [result EXCEPT ![i] = Fulfilled(products[Accumulator(i)])]
  /\ failedPage' = [failedPage EXCEPT ![i] = page[i]]
  /\ inflight' = [inflight EXCEPT ![i] = @ \ {page[i]}]
  /\ UNCHANGED <<page, products, fetched>>
  /\ reviewFrame

\* The rejection leaves every call of the chain: the promise is rejected.
Rejects(i) ==
  /\ rpc' = [rpc EXCEPT ![i] = "settled"]
  /\ result' = [result EXCEPT ![i] = Rejected]
  /\ failedPage' = [failedPage EXCEPT ![i] = page[i]]
  /\ inflight' = [inflight EXCEPT ![i] = @ \ {page[i]}]
  /\ UNCHANGED <<page, products, fetched>>
  /\ reviewFrame

\* Line 696: the fetch rejects.
FetchRejects(i) ==
  /\ rpc[i] = "fetch"
  /\ Rejects(i)

\* Lines 701-703: response.json() rejects, or the body has no reviews list.
JsonRejects(i) ==
  /\ rpc[i] = "json"
  /\ Rejects(i)

\* JsonLastPage with a cap of two pages.
JsonLastPage_Capped(i) ==
  /\ rpc[i] = "json"
  /\ IsLastPage(FetchPage(page[i]), externalID[i]) \/ page[i] >= 2
  /\ rpc' = [rpc EXCEPT ![i] = "settled"]
  /\ result' = [result EXCEPT ![i] = Fulfilled(products[Accumulator(i)])]
  /\ inflight' = [inflight EXCEPT ![i] = @ \ {page[i]}]
  /\ UNCHANGED <<page, products, fetched, failedPage>>
  /\ reviewFrame

\* Lines 701-706: the page is empty, the accumulator is returned.
JsonLastPage(i) ==
  /\ rpc[i] = "json"
  /\ IsLastPage(FetchPage(page[i]), externalID[i])
  /\ rpc' = [rpc EXCEPT ![i] = "settled"]
  /\ result' = [result EXCEPT ![i] = Fulfilled(products[Accumulator(i)])]
  /\ inflight' = [inflight EXCEPT ![i] = @ \ {page[i]}]
  /\ UNCHANGED <<page, products, fetched, failedPage>>
  /\ reviewFrame

\* Lines 701-712 and 693-700 of the recursive call: the records of the
\* product are pushed and the next page is fetched.
JsonNextPage(i) ==
  /\ rpc[i] = "json"
  /\ ~IsLastPage(FetchPage(page[i]), externalID[i])
  /\ page[i] < PageCap
  /\ products' = [products EXCEPT ![Accumulator(i)] =
                    @ \o ProductsWithID(FetchPage(page[i]), externalID[i])]
  /\ page' = [page EXCEPT ![i] = NextPage(@)]
  /\ fetched' = [fetched EXCEPT ![i] = Append(@, NextPage(page[i]))]
  /\ inflight' = [inflight EXCEPT ![i] = (@ \ {page[i]}) \cup {NextPage(page[i])}]
  /\ rpc' = [rpc EXCEPT ![i] = "fetch"]
  /\ UNCHANGED <<result, failedPage>>
  /\ reviewFrame

ReviewStep(i) ==
  \/ CallGetReviews(i)
  \/ FetchResolves(i)
  \/ FetchRejects(i)
  \/ JsonRejects(i)
  \/ JsonLastPage(i)
  \/ JsonNextPage(i)

ReviewNext == \E i \in Invocations : ReviewStep(i)

ReviewSpec == ReviewInit /\ [][ReviewNext]_vars

\* The scheduling of the invocations: a pending fetch or parse is answered
\* or rejected in the end, and its continuation is run.
ReviewFairSpec == ReviewSpec /\ \A i \in Invocations : WF_vars(ReviewStep(i))

\* getReviewsWithID(id, n, acc) run on its own, as a function of the source
\* (followed to PageCap).
RECURSIVE GetReviewsAlone(_, _, _)
GetReviewsAlone(id, n, acc) ==
  IF IsLastPage(FetchPage(n), id) \/ n > PageCap THEN acc
  ELSE GetReviewsAlone(id, NextPage(n), acc \o ProductsWithID(FetchPage(n), id))

-----------------------------------------------------------------------------
(* Properties of the paginated scan. *)

\* The records of the pages 1..n, in page order.
RECURSIVE RecordsUpTo(_)
RecordsUpTo(n) == IF n = 0 THEN <<>> ELSE RecordsUpTo(n - 1) \o FetchPage(n)

\* The records of a list that are of the product id, in the list's order.
RECURSIVE OfProduct(_, _)
OfProduct(records, id) ==
  IF records = <<>> THEN <<>>
  ELSE (IF Head(records).product_external_id = id THEN <<Head(records)>> ELSE <<>>)
         \o OfProduct(Tail(records), id)

\* C11: an invocation has requested the pages 1, 2, 3, ... in that order,
\* every page before the last one requested was not empty, and when its
\* promise is fulfilled the last page requested is empty and the value is
\* the records of the product among the pages before it, in page order and
\* in the order within the page.
C11_PagesInOrderUntilEmpty ==
  \A i \in Invocations :
    LET k == Len(fetched[i])
    IN  /\ \A n \in 1..k : fetched[i][n] = n
        /\ \A n \in 1..(k - 1) : FetchPage(n) # <<>>
        /\ result[i].state = "fulfilled" =>
             /\ k >= 1
             /\ FetchPage(k) = <<>>
             /\ result[i].value = OfProduct(RecordsUpTo(k - 1), externalID[i])

\* C11 witness: a page without a record of A, then a page with two, then the
\* end of the source; the scan for A has returned the two.
C11_Witness ==
  /\ externalID[1] = "A"
  /\ source = << <<Review("B", 4)>>,
                 <<Review("A", 3), Review("B", 2), Review("A", 4)>> >>
  /\ fetched[1] = <<1, 2, 3>>
  /\ result[1] = Fulfilled(<<Review("A", 3), Review("A", 4)>>)

\* C12: an invocation has at most one request outstanding, the request of
\* the page it is at; it has requested no page twice; and it has requested
\* page n + 1 only with the response for page n received and not empty.
C12_OneRequestAtATime ==
  \A i \in Invocations :
    /\ Cardinality(inflight[i]) <= 1
    /\ rpc[i] \in {"fetch", "json"} <=> inflight[i] = {page[i]}
    /\ rpc[i] \in {"idle", "settled"} <=> inflight[i] = {}
    /\ \A m, n \in 1..Len(fetched[i]) : fetched[i][m] = fetched[i][n] => m = n
    /\ \A n \in 1..Len(fetched[i]) :
         fetched[i][n] > 1 =>
           /\ n > 1
           /\ fetched[i][n - 1] = fetched[i][n] - 1
           /\ (fetched[i][n] - 1) \notin inflight[i]
           /\ FetchPage(fetched[i][n] - 1) # <<>>

\* C12 witness: the request of page 3 outstanding, after those of pages 1
\* and 2, while the other invocation waits for page 1.
C12_Witness ==
  /\ fetched[1] = <<1, 2, 3>>
  /\ inflight[1] = {3}
  /\ inflight[2] = {1}

\* A page of the source, or the source's answer past its pages, is empty.
SourceEnds == tail = "empty" \/ \E n \in 1..Len(source) : source[n] = <<>>

\* C13: a promise is fulfilled only at an empty page and rejected only by a
\* failed request, an invocation is over only with its promise settled, and
\* when the source has an empty page every invocation that has begun is in
\* the end fulfilled unless a request of it fails.
C13_RunsToEmptyPageOrFailure ==
  \A i \in Invocations :
    /\ [](result[i].state = "fulfilled" =>
            failedPage[i] = 0 /\ FetchPage(page[i]) = <<>>)
    /\ [](result[i].state = "rejected" => failedPage[i] # 0)
    /\ [](rpc[i] = "settled" => result[i].state \in {"fulfilled", "rejected"})
    /\ (SourceEnds /\ rpc[i] = "fetch")
         ~> (result[i].state = "fulfilled" \/ failedPage[i] # 0)

\* C13 witness: two pages that are not empty, then the end of the source:
\* the first invocation is fulfilled after three requests, the second has
\* failed.
C13_Witness ==
  /\ Len(source) = 2
  /\ source[1] # <<>>
  /\ source[2] # <<>>
  /\ tail = "empty"
  /\ result[1].state = "fulfilled"
  /\ fetched[1] = <<1, 2, 3>>
  /\ failedPage[2] = 2

\* C14: an invocation with a failed request has its promise rejected, with
\* no list as its value; it is over, with nothing outstanding; and the
\* failed page is the last one it has requested, requested once.
C14_FailurePropagates ==
  \A i \in Invocations :
    /\ failedPage[i] # 0 <=> result[i].state = "rejected"
    /\ failedPage[i] # 0 =>
         /\ result[i] = Rejected
         /\ rpc[i] = "settled"
         /\ inflight[i] = {}
         /\ fetched[i] # <<>>
         /\ fetched[i][Len(fetched[i])] = failedPage[i]
         /\ Occurrences(fetched[i], failedPage[i]) = 1

\* C14 witness: records accumulated from page 1, the parse of page 2 failed.
C14_Witness ==
  /\ failedPage[1] = 2
  /\ products[1] # <<>>
  /\ result[1] = Rejected

\* C18: every record of an invocation's accumulator is of its own product,
\* and a fulfilled promise has the value the invocation run on its own
\* returns, whatever the other invocation has done meanwhile.
C18_NoSharedAccumulator ==
  \A i \in Invocations :
    /\ \A n \in 1..Len(products[i]) :
         products[i][n].product_external_id = externalID[i]
    /\ rpc[i] \in {"fetch", "json"} =>
         products[i] = OfProduct(RecordsUpTo(page[i] - 1), externalID[i])
    /\ result[i].state = "fulfilled" =>
         result[i].value = GetReviewsAlone(externalID[i], 1, <<>>)

\* C18 witness: both invocations under way, for two products, each with
\* records of its own.
C18_Witness ==
  /\ externalID[1] = "A"
  /\ externalID[2] = "B"
  /\ rpc[1] = "json"
  /\ rpc[2] = "fetch"
  /\ products[1] = <<Review("A", 3), Review("A", 4)>>
  /\ products[2] = <<Review("B", 2), Review("B", 4)>>

-----------------------------------------------------------------------------
(* The product loader's review summary (lines 85-87) with getProductReviews *)
(* (lines 737-748) and getAverageRating (lines 750-763).  The quotient      *)
(* (sumKey / (reviews.length * 5)) * 5 is an exact fraction here; for       *)
(* whole ratings 0..5 and lists of up to 8 reviews toFixed(2) of the        *)
(* floating-point quotient is the same string.                              *)

\* The largest number of reviews of the metafield.
MaxReviews == 3

\* A review record without a rating field.
Unrated(id) == [product_external_id |-> id]

ReviewChoices ==
  { Review("A", 5), Review("A", 4), Review("A", 3), Review("A", 0), Unrated("A") }

ReviewLists == UNION { [1..n -> ReviewChoices] : n \in 0..MaxReviews }

\* What the review source holds while the product page is loaded.
LoaderSources == { <<>>, << <<Review("A", 5), Review("B", 4)>>, <<Review("A", 3)>> >> }

\* The values of the two types averageRating has.
JsNumber(n) == [type |-> "number", num |-> n]

JsString(s) == [type |-> "string", str |-> s]

\* Line 85 with the reviews taken from the paginated scan of the source.
OurReviews_Scanned(json) == GetReviewsAlone(externalID[1], 1, <<>>)

\* Line 85: (!product.reviewJson) ? [] : JSON.parse(product.reviewJson.value).reviews
OurReviews(json) == IF ~json.present THEN <<>> ELSE json.value.reviews

\* Lines 751-758: the sum of the rating fields that are truthy.
RECURSIVE SumKey(_)
SumKey(reviews) ==
  IF reviews = <<>> THEN 0
  ELSE SumKey(SubSeq(reviews, 1, Len(reviews) - 1))
         + (LET r == reviews[Len(reviews)]
            IN  IF "rating" \in DOMAIN r /\ r.rating # 0 THEN r.rating ELSE 0)

\* (num / den).toFixed(2): the nearest multiple of 1/100, the larger one of
\* two, with two fraction digits.
ToFixed2(num, den) ==
  LET hundredths == (200 * num + den) \div (2 * den)
      ds == NatDigits(hundredths, 3)
  IN  SubSeq(ds, 1, Len(ds) - 2) \o <<".">> \o SubSeq(ds, Len(ds) - 1, Len(ds))

\* getAverageRating with the zero case formatted like the others.
getAverageRating_AlwaysFormatted(reviews) ==
  IF SumKey(reviews) > 0
  THEN JsString(ToFixed2(SumKey(reviews) * 5, Len(reviews) * 5))
  ELSE JsString(<<"0", ".", "0", "0">>)

\* getAverageRating dividing by the number of reviews that have a rating.
getAverageRating_RatedOnly(reviews) ==
  LET Rated(r) == "rating" \in DOMAIN r
  IN  IF SumKey(reviews) > 0
      THEN JsString(ToFixed2(SumKey(reviews) * 5, Len(SelectSeq(reviews, Rated)) * 5))
      ELSE JsNumber(0)

\* Line 760: (sumKey > 0) ? ((sumKey / (reviews.length * 5)) * 5).toFixed(2) : 0
getAverageRating(reviews) ==
  IF SumKey(reviews) > 0
  THEN JsString(ToFixed2(SumKey(reviews) * 5, Len(reviews) * 5))
  ELSE JsNumber(0)

\* getProductReviews counting the rated reviews only.
getProductReviews_CountRated(myData) ==
  LET Rated(r) == "rating" \in DOMAIN r
  IN  [reviews |-> myData,
       totalReviews |-> Len(SelectSeq(myData, Rated)),
       averageRating |-> getAverageRating(myData)]

\* Lines 737-748.
getProductReviews(myData) ==
  [reviews |-> myData,
   totalReviews |-> Len(myData),
   averageRating |-> getAverageRating(myData)]

LoaderInit ==
  /\ reviewJson \in
       {[present |-> FALSE]}
         \cup {[present |-> TRUE, value |-> [reviews |-> l]] : l \in ReviewLists}
  /\ lpc = "product"
  /\ ourReviews = <<>>
  /\ productReviews = Pending
  /\ source \in LoaderSources
  /\ tail = "empty"
  /\ NoInvocation
  /\ CollectionAtRest
  /\ RecommendAtRest

\* Line 85.
ReadReviewJson ==
  /\ lpc = "product"
  /\ ourReviews' = OurReviews(reviewJson)
  /\ lpc' = "reviews"
  /\ UNCHANGED <<reviewJson, productReviews>>
  /\ UNCHANGED <<collectionVars, reviewVars, recommendVars>>

\* Line 87: await getProductReviews(ourReviews).
AwaitProductReviews ==
  /\ lpc = "reviews"
  /\ productReviews' = Fulfilled(getProductReviews(ourReviews))
  /\ lpc' = "done"
  /\ UNCHANGED <<reviewJson, ourReviews>>
  /\ UNCHANGED <<collectionVars, reviewVars, recommendVars>>

LoaderNext ==
  \/ ReadReviewJson
  \/ AwaitProductReviews

LoaderSpec == LoaderInit /\ [][LoaderNext]_vars

-----------------------------------------------------------------------------
(* Properties of the review summary. *)

\* The sum of the rating fields of a list of reviews.
RECURSIVE RatingSum(_)
RatingSum(reviews) ==
  IF reviews = <<>> THEN 0
  ELSE (IF "rating" \in DOMAIN Head(reviews) THEN Head(reviews).rating ELSE 0)
         + RatingSum(Tail(reviews))

Summarised == lpc = "done" /\ productReviews.state = "fulfilled"

\* C15: the summary has the list it was given as reviews and the list's
\* length as totalReviews; averageRating is the number 0 when the list is
\* empty or its ratings sum to zero, and a string in every other case.
C15_SummaryShape ==
  lpc = "done" =>
    /\ productReviews.state = "fulfilled"
    /\ productReviews.value.reviews = ourReviews
    /\ productReviews.value.totalReviews = Len(ourReviews)
    /\ (ourReviews = <<>> \/ RatingSum(ourReviews) = 0)
         => productReviews.value.averageRating = JsNumber(0)
    /\ ~(ourReviews = <<>> \/ RatingSum(ourReviews) = 0)
         => productReviews.value.averageRating.type = "string"

\* C15 witness: three reviews, one without a rating and two rated 0, are
\* summarised with the number 0.
C15_Witness ==
  /\ Summarised
  /\ Len(ourReviews) = 3
  /\ ourReviews[2] = Unrated("A")
  /\ RatingSum(ourReviews) = 0
  /\ productReviews.value.averageRating = JsNumber(0)

\* The number of hundredths a string with two fraction digits stands for.
Hundredths(s) == DigitsValue(SelectSeq(s, IsDigit))

\* C16: for a list whose ratings sum to more than zero, averageRating is a
\* string of digits, a point and exactly two digits; the number it stands
\* for is the multiple of 1/100 nearest to sum / count, count being the
\* length of the whole list; it lies between 0.00 and 5.00; and the
\* ratings 5, 4, 3 give "4.00".
C16_AverageFormula ==
  (lpc = "done" /\ ourReviews # <<>> /\ RatingSum(ourReviews) > 0) =>
    LET avg == productReviews.value.averageRating
        sum == RatingSum(ourReviews)
        count == Len(ourReviews)
    IN  /\ avg.type = "string"
        /\ Len(avg.str) >= 4
        /\ avg.str[Len(avg.str) - 2] = "."
        /\ \A n \in 1..Len(avg.str) : n # Len(avg.str) - 2 => IsDigit(avg.str[n])
        /\ 2 * (100 * sum - Hundredths(avg.str) * count) <= count
        /\ 2 * (Hundredths(avg.str) * count - 100 * sum) < count
        /\ Hundredths(avg.str) \in 0..500
        /\ ourReviews = <<Review("A", 5), Review("A", 4), Review("A", 3)>>
             => avg = JsString(<<"4", ".", "0", "0">>)

\* C16 witness: the ratings 5 and 4 and a review without a rating are
\* summarised with "3.00", 9 / 3.
C16_Witness ==
  /\ Summarised
  /\ ourReviews = <<Review("A", 5), Unrated("A"), Review("A", 4)>>
  /\ productReviews.value.averageRating = JsString(<<"3", ".", "0", "0">>)

-----------------------------------------------------------------------------
(* getRecommendedProducts (app/routes/($lang).products.$productHandle.tsx, *)
(* lines 765-796), called by the product loader at line 81.                *)

\* The largest number of nodes in the answer to the query.
MaxProducts == 3

Product(id, title) == [id |-> id, title |-> title]

\* The products the storefront can answer with; two of them share an id.
ProductChoices ==
  { Product("p1", "a"), Product("p2", "a"), Product("p2", "b"), Product("p3", "a") }

\* The answers to the query: products.additional.nodes.
NodeLists == UNION { [1..n -> ProductChoices] : n \in 0..MaxProducts }

\* The ids of the products the loader can be loading; "p4" is the id of no
\* product of an answer.
ProductIds == {"p1", "p2", "p4"}

\* array.findIndex((value2) => value2.id === id)
FindIndex(array, id) ==
  IF \E n \in 1..Len(array) : array[n].id = id
  THEN (CHOOSE n \in 1..Len(array) :
          /\ array[n].id = id
          /\ \A m \in 1..(n - 1) : array[m].id # id) - 1
  ELSE -1

\* .filter((value, index, array) => array.findIndex(...) === index), from
\* the element of index n - 1 on.
RECURSIVE FilterFirstById(_, _)
FilterFirstById(array, n) ==
  IF n > Len(array) THEN <<>>
  ELSE (IF FindIndex(array, array[n].id) = n - 1 THEN <<array[n]>> ELSE <<>>)
         \o FilterFirstById(array, n + 1)

\* MergedProducts without the filter.
MergedProducts_NoFilter(nodes) == <<>> \o nodes

\* products.recommended = []; products.recommended.concat(nodes).filter(...)
MergedProducts(nodes) == FilterFirstById(<<>> \o nodes, 1)

\* .map((item) => item.id)
RECURSIVE MapId(_)
MapId(array) ==
  IF array = <<>> THEN <<>> ELSE <<Head(array).id>> \o MapId(Tail(array))

\* ids.indexOf(id)
IndexOf(ids, id) ==
  IF \E n \in 1..Len(ids) : ids[n] = id
  THEN (CHOOSE n \in 1..Len(ids) :
          ids[n] = id /\ \A m \in 1..(n - 1) : ids[m] # id) - 1
  ELSE -1

\* array.splice(start, 1): a negative start counts from the end of the
\* array, and a start past the end removes nothing.
Splice1(array, start) ==
  LET from == IF start < 0
              THEN (IF Len(array) + start < 0 THEN 0 ELSE Len(array) + start)
              ELSE (IF start > Len(array) THEN Len(array) ELSE start)
  IN  SubSeq(array, 1, from) \o SubSeq(array, from + 2, Len(array))

OriginalProduct(merged, id) == IndexOf(MapId(merged), id)

\* What getRecommendedProducts resolves to for an answer with these nodes.
getRecommendedProducts(nodes, id) ==
  Splice1(MergedProducts(nodes), OriginalProduct(MergedProducts(nodes), id))

RecommendInit ==
  /\ productId \in ProductIds
  /\ additional = <<>>
  /\ gpc = "loader"
  /\ mergedProducts = <<>>
  /\ CollectionAtRest
  /\ ReviewsAtRest
  /\ LoaderAtRest

recommendFrame == UNCHANGED <<collectionVars, reviewVars, loaderVars>>

\* Line 81 and lines 770-775: the loader calls the function, which sends
\* the query and waits for its answer.
CallGetRecommendedProducts ==
  /\ gpc = "loader"
  /\ gpc' = "query"
  /\ UNCHANGED <<productId, additional, mergedProducts>>
  /\ recommendFrame

\* Lines 777-795: the answer arrives, and the function merges, removes and
\* returns.
QueryResolves ==
  /\ gpc = "query"
  /\ \E nodes \in NodeLists :
       /\ additional' = nodes
       /\ mergedProducts' = getRecommendedProducts(nodes, productId)
  /\ gpc' = "done"
  /\ UNCHANGED productId
  /\ recommendFrame

\* Line 777: the answer has no data, and invariant() throws.
QueryNoData ==
  /\ gpc = "query"
  /\ gpc' = "nodata"
  /\ UNCHANGED <<productId, additional, mergedProducts>>
  /\ recommendFrame

\* Line 770: the query fails, and the await throws.
QueryRejects ==
  /\ gpc = "query"
  /\ gpc' = "rejected"
  /\ UNCHANGED <<productId, additional, mergedProducts>>
  /\ recommendFrame

RecommendNext ==
  \/ CallGetRecommendedProducts
  \/ QueryResolves
  \/ QueryNoData
  \/ QueryRejects

RecommendSpec == RecommendInit /\ [][RecommendNext]_vars

-----------------------------------------------------------------------------
(* Properties of getRecommendedProducts. *)

\* The products of a list that are the first of their id and are not the
\* product of the given id, in the list's order, from the n-th on.
RECURSIVE DistinctOthers(_, _, _)
DistinctOthers(nodes, id, n) ==
  IF n > Len(nodes) THEN <<>>
  ELSE (IF /\ nodes[n].id # id
           /\ \A m \in 1..(n - 1) : nodes[m].id # nodes[n].id
        THEN <<nodes[n]>> ELSE <<>>)
         \o DistinctOthers(nodes, id, n + 1)

\* C20: the function returns every distinct product of the answer, by id
\* and in the order of first occurrence, other than the current product;
\* no product is removed when the current product is not in the answer.
C20_OnlyCurrentRemoved ==
  gpc = "done" => mergedProducts = DistinctOthers(additional, productId, 1)

\* C21: the list the function returns has no two products with the same
\* id and has no product whose id is the given productId, whatever the
\* answer to the query is.
C21_DistinctAndNoCurrent ==
  gpc = "done" =>
    /\ \A m, n \in 1..Len(mergedProducts) :
         mergedProducts[m].id = mergedProducts[n].id => m = n
    /\ \A n \in 1..Len(mergedProducts) : mergedProducts[n].id # productId

\* C21 witness: the answer has the current product twice, with another
\* product between, and the function returns the other product alone.
C21_Witness ==
  /\ gpc = "done"
  /\ productId = "p2"
  /\ additional = <<Product("p2", "a"), Product("p1", "a"), Product("p2", "b")>>
  /\ mergedProducts = <<Product("p1", "a")>>

=============================================================================
